---------------------------- MODULE Spec2Model ----------------------------
(***************************************************************************)
(* NaextroNotes (script.js): a client-rendered notes gallery.              *)
(*                                                                         *)
(* The model follows script.js function by function.  A string that the   *)
(* code takes apart (a date) is a sequence of one-character strings, so    *)
(* that split('-'), padStart and the Date parse are computed and not       *)
(* assumed.  Subjects and image paths, which the code only compares and    *)
(* copies, are TLA+ strings.                                               *)
(*                                                                         *)
(* Timestamps are counted in whole days instead of epoch milliseconds at   *)
(* local midnight: the code only subtracts them inside sort comparators,   *)
(* and the day count orders dates as the millisecond count does.           *)
(***************************************************************************)
EXTENDS Integers, Sequences, FiniteSets, TLC

(* Longest info.json collection the model loads. *)
MaxGroups == 2

(* Longest collection handed to renderGroupedImages on its own. *)
MaxRenderGroups == 3

(* Most setTimeout callbacks of closePreview waiting at once. *)
MaxPendingResets == 2

(***************************************************************************)
(* Strings as character sequences                                          *)
(***************************************************************************)
Digits == {"0", "1", "2", "3", "4", "5", "6", "7", "8", "9"}

DigitVal(c) ==
    CASE c = "0" -> 0 [] c = "1" -> 1 [] c = "2" -> 2 [] c = "3" -> 3
      [] c = "4" -> 4 [] c = "5" -> 5 [] c = "6" -> 6 [] c = "7" -> 7
      [] c = "8" -> 8 [] c = "9" -> 9

AllDigits(cs) == \A i \in 1..Len(cs) : cs[i] \in Digits

RECURSIVE ToNum(_)
ToNum(cs) ==
    IF cs = <<>> THEN 0
    ELSE 10 * ToNum(SubSeq(cs, 1, Len(cs) - 1)) + DigitVal(cs[Len(cs)])

(* String.prototype.split('-'): "" gives [""], "a-" gives ["a", ""]. *)
RECURSIVE SplitFrom(_, _, _, _)
SplitFrom(s, i, cur, acc) ==
    IF i > Len(s) THEN Append(acc, cur)
    ELSE IF s[i] = "-" THEN SplitFrom(s, i + 1, <<>>, Append(acc, cur))
    ELSE SplitFrom(s, i + 1, Append(cur, s[i]), acc)

Split(s) == SplitFrom(s, 1, <<>>, <<>>)

(* String.prototype.padStart(2, '0') *)
RECURSIVE PadStart2(_)
PadStart2(cs) == IF Len(cs) >= 2 THEN cs ELSE PadStart2(<<"0">> \o cs)

(* The value a destructuring pattern binds when the array is too short.  It *)
(* is no character sequence, so === against any string is false.            *)
Undefined == <<"undefined">>

Component(parts, i) == IF i <= Len(parts) THEN parts[i] ELSE Undefined

(***************************************************************************)
(* Numbers: a JavaScript number is a value or NaN                          *)
(***************************************************************************)
NaN == [nan |-> TRUE, v |-> 0]
Num(n) == [nan |-> FALSE, v |-> n]
Minus(a, b) == IF a.nan \/ b.nan THEN NaN ELSE Num(a.v - b.v)

(***************************************************************************)
(* new Date(`${iso}T00:00:00`).getTime()                                   *)
(* The ECMAScript date-time format is YYYY-MM-DD with four, two and two    *)
(* digits; a string outside the format, or with a month or a day out of    *)
(* range, gives an Invalid Date, whose time value is NaN.                  *)
(***************************************************************************)
IsLeap(y) == (y % 4 = 0 /\ y % 100 # 0) \/ y % 400 = 0

DaysInMonth(y, m) ==
    IF m = 2 THEN (IF IsLeap(y) THEN 29 ELSE 28)
    ELSE IF m \in {4, 6, 9, 11} THEN 30 ELSE 31

RECURSIVE DaysBeforeMonth(_, _)
DaysBeforeMonth(y, m) ==
    IF m = 1 THEN 0 ELSE DaysBeforeMonth(y, m - 1) + DaysInMonth(y, m - 1)

DayNumber(y, m, d) ==
    365 * y + ((y - 1) \div 4) - ((y - 1) \div 100) + ((y - 1) \div 400)
        + DaysBeforeMonth(y, m) + d

DateGetTime(iso) ==
    LET p == Split(iso) IN
    IF /\ Len(p) = 3
       /\ Len(p[1]) = 4 /\ Len(p[2]) = 2 /\ Len(p[3]) = 2
       /\ AllDigits(p[1]) /\ AllDigits(p[2]) /\ AllDigits(p[3])
    THEN LET y == ToNum(p[1])
             m == ToNum(p[2])
             d == ToNum(p[3])
         IN IF m \in 1..12 /\ d >= 1 /\ d <= DaysInMonth(y, m)
            THEN Num(DayNumber(y, m, d))
            ELSE NaN
    ELSE NaN

(***************************************************************************)
(* parseDDMMYYYY (script.js 7-15)                                          *)
(***************************************************************************)
Null == [isNull |-> TRUE]

parseDDMMYYYY(ddmmyyyy) ==
    LET parts == Split(ddmmyyyy) IN
    IF Len(parts) # 3 THEN Null
    ELSE LET dd == PadStart2(parts[1])
             mm == PadStart2(parts[2])
             yyyy == parts[3]
             iso == yyyy \o <<"-">> \o mm \o <<"-">> \o dd
         IN [isNull |-> FALSE, iso |-> iso, ts |-> DateGetTime(iso),
             raw |-> ddmmyyyy]

(***************************************************************************)
(* Array.prototype.sort                                                    *)
(* keys[i] is the number the comparator reads from element i; the          *)
(* comparator is (a, b) => key(a) - key(b), or the reverse when desc.  A   *)
(* NaN result counts as +0 (ECMA-262 SortCompare).  The sort is stable     *)
(* when the comparator is consistent, and implementation-defined (any      *)
(* permutation) when it is not.  The result is a sequence of indices.      *)
(***************************************************************************)
Compare(keys, x, y, desc) ==
    LET r == IF desc THEN Minus(keys[y], keys[x]) ELSE Minus(keys[x], keys[y])
    IN IF r.nan THEN 0 ELSE r.v

ConsistentComparator(keys) ==
    \/ \A i \in 1..Len(keys) : ~keys[i].nan
    \/ \A i, j \in 1..Len(keys) :
          (~keys[i].nan /\ ~keys[j].nan) => keys[i].v = keys[j].v

RECURSIVE InsertSorted(_, _, _, _)
InsertSorted(sorted, x, keys, desc) ==
    IF sorted = <<>> THEN <<x>>
    ELSE LET last == sorted[Len(sorted)] IN
         IF Compare(keys, x, last, desc) < 0
         THEN Append(InsertSorted(SubSeq(sorted, 1, Len(sorted) - 1), x, keys, desc), last)
         ELSE Append(sorted, x)

RECURSIVE StableSortUpTo(_, _, _)
StableSortUpTo(n, keys, desc) ==
    IF n = 0 THEN <<>>
    ELSE InsertSorted(StableSortUpTo(n - 1, keys, desc), n, keys, desc)

IndexPermutations(n) ==
    {p \in [1..n -> 1..n] : \A i, j \in 1..n : i # j => p[i] # p[j]}

SortOutcomes(keys, desc) ==
    IF ConsistentComparator(keys)
    THEN {StableSortUpTo(Len(keys), keys, desc)}
    ELSE IndexPermutations(Len(keys))

At(seq, idx) == [i \in 1..Len(idx) |-> seq[idx[i]]]

(***************************************************************************)
(* The data file                                                           *)
(* A DateGroup is [date, subjects]; a SubjectGroup is [subject, images].   *)
(***************************************************************************)
DateString(dd, mm, yyyy) == dd \o <<"-">> \o mm \o <<"-">> \o yyyy

(* Variant: the embedded sample left empty. *)
FallbackDataEmpty == <<>>

(* The embedded sample of fetchData's catch block. *)
FallbackData ==
    << [date |-> DateString(<<"2", "1">>, <<"1", "2">>, <<"2", "0", "0", "9">>),
        subjects |->
          << [subject |-> "Physics",
              images |-> << "images/21-12-2009/phy1.jpg", "images/21-12-2009/phy2.jpg" >>],
             [subject |-> "Chemistry",
              images |-> << "images/21-12-2009/chem1.jpg", "images/21-12-2009/chem2.jpg" >>] >>],
       [date |-> DateString(<<"1", "0">>, <<"0", "1">>, <<"2", "0", "1", "0">>),
        subjects |->
          << [subject |-> "Biology",
              images |-> << "images/10-01-2010/bio1.jpg", "images/10-01-2010/bio2.jpg",
                            "images/10-01-2010/bio3.jpg" >>],
             [subject |-> "Physics",
              images |-> << "images/10-01-2010/phy3.jpg" >>] >>] >>

(* DateGroups an info.json may hold: an unpadded date with two subjects, a  *)
(* padded date with one, and a date of two parts.                           *)
InfoJsonGroups ==
    << [date |-> DateString(<<"9">>, <<"3">>, <<"2", "0", "2", "1">>),
        subjects |-> << [subject |-> "Chemistry", images |-> << "a.jpg" >>],
                        [subject |-> "Physics", images |-> << "d.jpg" >>] >>],
       [date |-> DateString(<<"1", "1">>, <<"1", "0">>, <<"2", "0", "2", "5">>),
        subjects |-> << [subject |-> "Physics", images |-> << "b.jpg", "c.jpg" >>] >>],
       [date |-> <<"2", "0", "2", "5", "-", "1", "0">>,
        subjects |-> << [subject |-> "Physics", images |-> << "f.jpg" >>] >>] >>

(* A date of three parts that is no calendar date. *)
NoCalendarDateGroup ==
    [date |-> DateString(<<"x", "x">>, <<"1", "0">>, <<"2", "0", "2", "3">>),
     subjects |-> << [subject |-> "Chemistry", images |-> << "g.jpg" >>] >>]

SequencesUpTo(groups, n) ==
    UNION { { At(groups, p) : p \in [1..k -> 1..Len(groups)] } : k \in 0..n }

(* The collections res.json() may resolve to: arrays of DateGroups with a   *)
(* string date and an array of subjects, as the data file's schema has it. *)
InfoJsonCollections == SequencesUpTo(InfoJsonGroups, MaxGroups)

(* The collections handed to renderGroupedImages on its own. *)
RenderInputs == SequencesUpTo(Append(InfoJsonGroups, NoCalendarDateGroup), MaxRenderGroups)

(***************************************************************************)
(* getFlattenedImages (script.js 24-32)                                    *)
(***************************************************************************)
RECURSIVE FlattenSubjects(_, _)
FlattenSubjects(date, subjects) ==
    IF subjects = <<>> THEN <<>>
    ELSE LET s == Head(subjects) IN
         [i \in 1..Len(s.images) |->
             [date |-> date, subject |-> s.subject, path |-> s.images[i]]]
         \o FlattenSubjects(date, Tail(subjects))

RECURSIVE getFlattenedImages(_)
getFlattenedImages(data) ==
    IF data = <<>> THEN <<>>
    ELSE FlattenSubjects(Head(data).date, Head(data).subjects)
         \o getFlattenedImages(Tail(data))

(***************************************************************************)
(* The Filter Engine: the filteredData of applyCombinedFilter              *)
(* (script.js 270-296).  A select's value "" is the empty string <<>> for  *)
(* the date fields and "" for the subject.                                 *)
(***************************************************************************)
(* getSelectedSubject (252-256): null is "" here, both are falsy. *)
getSelectedSubject(fs, sel) == IF ~fs.subject THEN "" ELSE sel.subject

(* getSelectedDateFilters (257-267) *)
getSelectedDateFilters(fs, sel) ==
    IF ~fs.date THEN Null
    ELSE IF sel.day = <<>> /\ sel.month = <<>> /\ sel.year = <<>> THEN Null
    ELSE [isNull |-> FALSE, day |-> sel.day, month |-> sel.month, year |-> sel.year]

(* Variant: the three field tests joined by || instead of &&. *)
MatchesDateAnyField(dItem, dateFilters) ==
    LET parts == Split(dItem.date) IN
    \/ dateFilters.day = <<>> \/ Component(parts, 1) = dateFilters.day
    \/ dateFilters.month = <<>> \/ Component(parts, 2) = dateFilters.month
    \/ dateFilters.year = <<>> \/ Component(parts, 3) = dateFilters.year

(* the callback of filteredData.filter (279-287) *)
MatchesDate(dItem, dateFilters) ==
    LET parts == Split(dItem.date)
        day == Component(parts, 1)
        month == Component(parts, 2)
        year == Component(parts, 3)
        matchesDay == dateFilters.day = <<>> \/ day = dateFilters.day
        matchesMonth == dateFilters.month = <<>> \/ month = dateFilters.month
        matchesYear == dateFilters.year = <<>> \/ year = dateFilters.year
    IN matchesDay /\ matchesMonth /\ matchesYear

DateStep(data, fs, dateFilters) ==
    IF fs.date /\ ~dateFilters.isNull
    THEN SelectSeq(data, LAMBDA dItem : MatchesDate(dItem, dateFilters))
    ELSE data

(* Variant: the other SubjectGroups removed from dItem.subjects with splice *)
(* inside a forward loop, which steps over the element after each removal.  *)
RECURSIVE SpliceOthers(_, _, _)
SpliceOthers(subjects, i, subject) ==
    IF i > Len(subjects) THEN subjects
    ELSE IF subjects[i].subject # subject
    THEN SpliceOthers(SubSeq(subjects, 1, i - 1) \o SubSeq(subjects, i + 1, Len(subjects)),
                      i + 1, subject)
    ELSE SpliceOthers(subjects, i + 1, subject)

KeepSubjectSplice(dItem, subject) ==
    [dItem EXCEPT !.subjects = SpliceOthers(dItem.subjects, 1, subject)]

(* Variant: the filtered subjects computed and not assigned. *)
KeepSubjectUnassigned(dItem, subject) == dItem

(* the callback of filteredData.map (292-295) *)
KeepSubject(dItem, subject) ==
    [dItem EXCEPT !.subjects = SelectSeq(dItem.subjects, LAMBDA s : s.subject = subject)]

(* Variant: the guard tests the toggle alone, not the selected subject. *)
SubjectStepToggleOnly(data, fs, subject) ==
    IF fs.subject
    THEN SelectSeq([i \in 1..Len(data) |->
                       [data[i] EXCEPT !.subjects =
                           SelectSeq(data[i].subjects, LAMBDA s : s.subject = subject)]],
                   LAMBDA dItem : Len(dItem.subjects) > 0)
    ELSE data

SubjectStep(data, fs, subject) ==
    IF fs.subject /\ subject # ""
    THEN SelectSeq([i \in 1..Len(data) |-> KeepSubject(data[i], subject)],
                   LAMBDA dItem : Len(dItem.subjects) > 0)
    ELSE data

(* Variant: the retained DateGroups collected with unshift, so last first. *)
FilteredDataUnshift(data, fs, sel) ==
    LET kept == SubjectStep(DateStep(data, fs, getSelectedDateFilters(fs, sel)),
                            fs, getSelectedSubject(fs, sel))
    IN [i \in 1..Len(kept) |-> kept[Len(kept) + 1 - i]]

FilteredData(data, fs, sel) ==
    SubjectStep(DateStep(data, fs, getSelectedDateFilters(fs, sel)),
                fs, getSelectedSubject(fs, sel))

(***************************************************************************)
(* Rendering.  A container's content is [emptyState, sections]: the        *)
(* "No Notes Found" block or not, and the date sections from top to        *)
(* bottom, each [date, subjects] with one card per image.                  *)
(***************************************************************************)
EmptyContainer == [emptyState |-> FALSE, sections |-> <<>>]

(* renderImages (55-96): a flat grid, one section-less card list. *)
renderImages(data) ==
    IF Len(data) = 0
    THEN [emptyState |-> TRUE, sections |-> <<>>]
    ELSE [emptyState |-> FALSE, sections |-> << [flat |-> data] >>]

(* renderGroupedImages (98-147): line 102, then the sort of line 103. *)
Enriched(data) ==
    SelectSeq([i \in 1..Len(data) |->
                  [raw |-> data[i].date, dateObj |-> parseDDMMYYYY(data[i].date),
                   subjects |-> data[i].subjects]],
              LAMBDA x : ~x.dateObj.isNull)

EnrichedKeys(enriched) == [i \in 1..Len(enriched) |-> enriched[i].dateObj.ts]

DateSection(dItem) == [date |-> dItem.raw, subjects |-> dItem.subjects]

renderGroupedImages(data) ==
    LET enriched == Enriched(data) IN
    { [emptyState |-> FALSE,
       sections |-> [i \in 1..Len(enriched) |-> DateSection(enriched[order[i]])]] :
        order \in SortOutcomes(EnrichedKeys(enriched), TRUE) }

(***************************************************************************)
(* populateFilterOptions (150-209): the option values of the four selects, *)
(* as sets (the order of the options is not modelled).                     *)
(***************************************************************************)
ParsedDates(data) ==
    {data[i].date : i \in {j \in 1..Len(data) : ~parseDDMMYYYY(data[j].date).isNull}}

populateFilterOptions(data) ==
    [subject |-> UNION { {data[i].subjects[k].subject : k \in 1..Len(data[i].subjects)} :
                         i \in 1..Len(data) },
     day |-> {Split(d)[1] : d \in ParsedDates(data)},
     month |-> {Split(d)[2] : d \in ParsedDates(data)},
     year |-> {Split(d)[3] : d \in ParsedDates(data)}]

(***************************************************************************)
(* calculateStats (321-351)                                                *)
(***************************************************************************)
NotAvailable == <<"N", "/", "A">>

RECURSIVE Distinct(_, _)
Distinct(seq, seen) ==
    IF seq = <<>> THEN <<>>
    ELSE IF Head(seq) \in seen THEN Distinct(Tail(seq), seen)
    ELSE <<Head(seq)>> \o Distinct(Tail(seq), seen \cup {Head(seq)})

StatsDates(flat) == Distinct([i \in 1..Len(flat) |-> flat[i].date], {})

(* The comparator of line 328 reads dateA.ts: a TypeError when             *)
(* parseDDMMYYYY returned null.  sort calls the comparator on every        *)
(* element as soon as there are two.                                       *)
calculateStatsThrows(flat) ==
    LET dates == StatsDates(flat) IN
    /\ Len(dates) >= 2
    /\ \E i \in 1..Len(dates) : parseDDMMYYYY(dates[i]).isNull

SortedDates(dates) ==
    IF Len(dates) <= 1 THEN {dates}
    ELSE { At(dates, order) :
             order \in SortOutcomes([i \in 1..Len(dates) |-> parseDDMMYYYY(dates[i]).ts],
                                    FALSE) }

OrNotAvailable(dates, i) ==
    IF i < 1 \/ i > Len(dates) \/ dates[i] = <<>> THEN NotAvailable ELSE dates[i]

calculateStats(flat) ==
    LET subjects == {flat[i].subject : i \in 1..Len(flat)} IN
    { [totalImages |-> Len(flat),
       uniqueSubjects |-> Cardinality(subjects),
       uniqueDates |-> Cardinality({flat[i].date : i \in 1..Len(flat)}),
       oldestDate |-> OrNotAvailable(sortedDates, 1),
       newestDate |-> OrNotAvailable(sortedDates, Len(sortedDates)),
       subjectBreakdown |->
          [s \in subjects |-> Cardinality({i \in 1..Len(flat) : flat[i].subject = s})]] :
        sortedDates \in SortedDates(StatsDates(flat)) }

(***************************************************************************)
(* State                                                                   *)
(***************************************************************************)
VARIABLES
    galleryData,      \* let galleryData (line 2)
    flattenedImages,  \* let flattenedImages (line 3)
    filterState,      \* const filterState (line 4)
    options,          \* option values of #subject-filter, #day-, #month-, #year-filter
    selected,         \* .value of the four selects
    subjectOnchange,  \* subjectSelect.onchange is applyCombinedFilter (line 208)
    containers,       \* content of #image-container and #filtered-image-container
    rendered,         \* per container: the data argument of its last renderGroupedImages
    applied,          \* the last applyCombinedFilter call: what it read, its filteredData
    hidden,           \* per view: its classList holds 'hidden'
    ui,               \* #filter-status text and the 'enabled' class of the two control blocks
    homeStats,        \* the statistics written into #home-stats
    pc,               \* where fetchData stands
    outcome,          \* how the load ended
    fetchCalls,       \* calls of fetch('info.json')
    preview           \* #preview-overlay, #preview-image, #preview-info, the reset timers

vars == << galleryData, flattenedImages, filterState, options, selected, subjectOnchange,
           containers, rendered, applied, hidden, ui, homeStats, pc, outcome, fetchCalls, preview >>

(* The preview overlay as the page's markup has it: not active, no image.  *)
(* pending counts the setTimeout callbacks of closePreview not yet run;     *)
(* requested is the imagePath of the last openPreview.                      *)
PreviewClosed ==
    [active |-> FALSE, src |-> "", alt |-> <<>>, info |-> <<>>, scrollLocked |-> FALSE,
     pending |-> 0, requested |-> ""]

(* The views of the page; showView is also called with ids of no view.     *)
Views == {"home-view", "gallery-view", "filter-view"}
OtherElementIds == {"home-stats"}
ViewArguments == Views \cup OtherElementIds \cup {"settings-view"}

FilterTypes == {"subject", "date"}
DateFields == {"day", "month", "year"}

NoSelection == [subject |-> "", day |-> <<>>, month |-> <<>>, year |-> <<>>]

NoStats == [written |-> FALSE]

Init ==
    /\ galleryData = <<>>
    /\ flattenedImages = <<>>
    /\ filterState = [subject |-> FALSE, date |-> FALSE]
    /\ options = [subject |-> {}, day |-> {}, month |-> {}, year |-> {}]
    /\ selected = NoSelection
    /\ subjectOnchange = FALSE
    /\ containers = [image |-> EmptyContainer, filtered |-> EmptyContainer]
    /\ rendered = [image |-> [ran |-> FALSE, data |-> <<>>],
                   filtered |-> [ran |-> FALSE, data |-> <<>>]]
    /\ applied = [ran |-> FALSE, data |-> <<>>, fs |-> [subject |-> FALSE, date |-> FALSE],
                  sel |-> NoSelection, out |-> <<>>]
    /\ hidden = [v \in Views |-> v # "home-view"]
    /\ ui = [status |-> [subject |-> FALSE, date |-> FALSE],
             controls |-> [subject |-> FALSE, date |-> FALSE]]
    /\ homeStats = NoStats
    /\ pc = "idle"
    /\ outcome = "pending"
    /\ fetchCalls = 0
    /\ preview = PreviewClosed

(***************************************************************************)
(* applyCombinedFilter (270-300), with the toggles fs and the select       *)
(* values sel its caller leaves behind.                                    *)
(***************************************************************************)
ApplyCombinedFilter(fs, sel) ==
    LET filteredData == FilteredData(galleryData, fs, sel) IN
    /\ \E dom \in renderGroupedImages(filteredData) :
          containers' = [containers EXCEPT !.filtered = dom]
    /\ rendered' = [rendered EXCEPT !.filtered = [ran |-> TRUE, data |-> filteredData]]
    /\ applied' = [ran |-> TRUE, data |-> galleryData, fs |-> fs, sel |-> sel,
                   out |-> filteredData]

(* renderGroupedImages(galleryData, 'image-container') (50, 317) *)
RenderGallery(data) ==
    /\ \E dom \in renderGroupedImages(data) :
          containers' = [containers EXCEPT !.image = dom]
    /\ rendered' = [rendered EXCEPT !.image = [ran |-> TRUE, data |-> data]]

(* updateFilterStatus (230-233) and the class toggling of 240-246, 305-306 *)
UiFor(fs) == [status |-> fs, controls |-> fs]

(***************************************************************************)
(* The load: the DOMContentLoaded handler and fetchData (35-52, 469)       *)
(***************************************************************************)
DOMContentLoaded ==
    /\ pc = "idle"
    /\ pc' = "awaitFetch"
    /\ fetchCalls' = fetchCalls + 1
    /\ UNCHANGED << galleryData, flattenedImages, filterState, options, selected,
                    subjectOnchange, containers, rendered, applied, hidden, ui,
                    homeStats, outcome, preview >>

(* Lines 48-51, run in one turn after galleryData is assigned.             *)
(* The page holds the four selects, both containers and #home-stats.       *)
(* populateFilterOptions rewrites the options, which leaves every select   *)
(* on its first option "Any".  updateHomepageStats stops at the TypeError  *)
(* of calculateStats, after the gallery has been rendered.                 *)
FinishLoad(data, how) ==
    /\ galleryData' = data
    /\ flattenedImages' = getFlattenedImages(data)
    /\ options' = populateFilterOptions(data)
    /\ selected' = NoSelection
    /\ subjectOnchange' = TRUE
    /\ ui' = [ui EXCEPT !.status = filterState]
    /\ RenderGallery(data)
    /\ outcome' = how
    /\ IF calculateStatsThrows(getFlattenedImages(data))
       THEN pc' = "threw" /\ UNCHANGED homeStats
       ELSE /\ pc' = "done"
            /\ \E stats \in calculateStats(getFlattenedImages(data)) :
                  homeStats' = [written |-> TRUE, stats |-> stats]
    /\ UNCHANGED << filterState, applied, hidden, fetchCalls, preview >>

FetchRejects ==
    /\ pc = "awaitFetch"
    /\ FinishLoad(FallbackData, "fetchRejected")

FetchResolves(ok) ==
    /\ pc = "awaitFetch"
    /\ IF ok
       THEN /\ pc' = "awaitJson"
            /\ UNCHANGED << galleryData, flattenedImages, filterState, options, selected,
                            subjectOnchange, containers, rendered, applied, hidden, ui,
                            homeStats, outcome, fetchCalls, preview >>
       ELSE FinishLoad(FallbackData, "notOk")

JsonResolves(data) ==
    /\ pc = "awaitJson"
    /\ FinishLoad(data, "loaded")

JsonRejects ==
    /\ pc = "awaitJson"
    /\ FinishLoad(FallbackData, "badJson")

(***************************************************************************)
(* User events.  They are dispatched once the script has run, between the  *)
(* turns of fetchData.                                                     *)
(***************************************************************************)
Interactive == pc # "idle"

(* toggleFilter (236-249) *)
toggleFilter(filterType) ==
    /\ Interactive
    /\ LET fs == [filterState EXCEPT ![filterType] = ~filterState[filterType]] IN
       /\ filterState' = fs
       /\ ui' = UiFor(fs)
       /\ ApplyCombinedFilter(fs, selected)
    /\ UNCHANGED << galleryData, flattenedImages, options, selected, subjectOnchange,
                    hidden, homeStats, pc, outcome, fetchCalls, preview >>

(* The user picks another option of #subject-filter: the onchange handler  *)
(* of line 208.                                                            *)
SubjectChange(value) ==
    /\ Interactive
    /\ subjectOnchange
    /\ value \in options.subject \cup {""}
    /\ value # selected.subject
    /\ selected' = [selected EXCEPT !.subject = value]
    /\ ApplyCombinedFilter(filterState, [selected EXCEPT !.subject = value])
    /\ UNCHANGED << galleryData, flattenedImages, filterState, options, subjectOnchange,
                    hidden, ui, homeStats, pc, outcome, fetchCalls, preview >>

(* The user picks another option of #day-, #month- or #year-filter.  The   *)
(* page's markup wires the change to applyCombinedFilter.                  *)
DateChange(field, value) ==
    /\ Interactive
    /\ value \in options[field] \cup {<<>>}
    /\ value # selected[field]
    /\ selected' = [selected EXCEPT ![field] = value]
    /\ ApplyCombinedFilter(filterState, [selected EXCEPT ![field] = value])
    /\ UNCHANGED << galleryData, flattenedImages, filterState, options, subjectOnchange,
                    hidden, ui, homeStats, pc, outcome, fetchCalls, preview >>

(* clearSubjects (219-222) *)
clearSubjects ==
    /\ Interactive
    /\ selected' = [selected EXCEPT !.subject = ""]
    /\ ApplyCombinedFilter(filterState, [selected EXCEPT !.subject = ""])
    /\ UNCHANGED << galleryData, flattenedImages, filterState, options, subjectOnchange,
                    hidden, ui, homeStats, pc, outcome, fetchCalls, preview >>

(* clearDate (223-228) *)
clearDate ==
    /\ Interactive
    /\ LET sel == [selected EXCEPT !.day = <<>>, !.month = <<>>, !.year = <<>>] IN
       /\ selected' = sel
       /\ ApplyCombinedFilter(filterState, sel)
    /\ UNCHANGED << galleryData, flattenedImages, filterState, options, subjectOnchange,
                    hidden, ui, homeStats, pc, outcome, fetchCalls, preview >>

(* resetAllFilters (303-310): clearSubjects, clearDate and a last          *)
(* applyCombinedFilter each render; the last one is what stays.            *)
resetAllFilters ==
    /\ Interactive
    /\ LET fs == [subject |-> FALSE, date |-> FALSE] IN
       /\ filterState' = fs
       /\ ui' = UiFor(fs)
       /\ selected' = NoSelection
       /\ ApplyCombinedFilter(fs, NoSelection)
    /\ UNCHANGED << galleryData, flattenedImages, options, subjectOnchange,
                    hidden, homeStats, pc, outcome, fetchCalls, preview >>

(* showView (312-318) *)
showView(viewId) ==
    /\ Interactive
    /\ hidden' = [v \in Views |-> v # viewId]
    /\ IF viewId = "filter-view"
       THEN ApplyCombinedFilter(filterState, selected)
       ELSE IF viewId = "gallery-view"
       THEN RenderGallery(galleryData) /\ UNCHANGED applied
       ELSE UNCHANGED << containers, rendered, applied >>
    /\ UNCHANGED << galleryData, flattenedImages, filterState, options, selected,
                    subjectOnchange, ui, homeStats, pc, outcome, fetchCalls, preview >>

(***************************************************************************)
(* The preview overlay (426-466).  Its handlers read and write nothing of  *)
(* the state above but the cards of the two containers.                    *)
(***************************************************************************)
programVars == << galleryData, flattenedImages, filterState, options, selected,
                  subjectOnchange, containers, rendered, applied, hidden, ui, homeStats,
                  pc, outcome, fetchCalls >>

(* The cards of a container: the arguments of the Preview button's         *)
(* openPreview(p, s.subject, dItem.raw) (line 129).                        *)
Cards(dom) ==
    UNION { UNION { { [path |-> dom.sections[i].subjects[k].images[n],
                       subject |-> dom.sections[i].subjects[k].subject,
                       date |-> dom.sections[i].date] :
                        n \in 1..Len(dom.sections[i].subjects[k].images) } :
                    k \in 1..Len(dom.sections[i].subjects) } :
            i \in 1..Len(dom.sections) }

(* openPreview (426-443) *)
openPreview(imagePath, subject, date) ==
    /\ Interactive
    /\ preview' = [preview EXCEPT !.src = imagePath,
                                  !.alt = <<subject, date>>,
                                  !.info = <<subject, date>>,
                                  !.active = TRUE,
                                  !.scrollLocked = TRUE,
                                  !.requested = imagePath]
    /\ UNCHANGED programVars

(* closePreview (445-459) up to its return: the overlay is hidden, the     *)
(* scroll restored and one more callback is scheduled; nothing cancels it. *)
ClosePreviewBody(p) ==
    [p EXCEPT !.active = FALSE, !.scrollLocked = FALSE, !.pending = @ + 1]

(* The close button and the backdrop of the overlay, shown while it is     *)
(* active.                                                                 *)
closePreview ==
    /\ preview.active
    /\ preview.pending < MaxPendingResets
    /\ preview' = ClosePreviewBody(preview)
    /\ UNCHANGED programVars

(* The keydown listener (462-466): Escape closes, whatever the overlay's state. *)
EscapeKey ==
    /\ Interactive
    /\ preview.pending < MaxPendingResets
    /\ preview' = ClosePreviewBody(preview)
    /\ UNCHANGED programVars

(* The callback of setTimeout (455-458), 300 ms after its closePreview. *)
ResetTimerFires ==
    /\ preview.pending > 0
    /\ preview' = [preview EXCEPT !.src = "", !.pending = @ - 1]
    /\ UNCHANGED programVars

Next ==
    \/ DOMContentLoaded
    \/ FetchRejects
    \/ \E ok \in BOOLEAN : FetchResolves(ok)
    \/ \E data \in InfoJsonCollections : JsonResolves(data)
    \/ JsonRejects
    \/ \E filterType \in FilterTypes : toggleFilter(filterType)
    \/ \E value \in options.subject \cup {""} : SubjectChange(value)
    \/ \E field \in DateFields : \E value \in options[field] \cup {<<>>} :
          DateChange(field, value)
    \/ clearSubjects
    \/ clearDate
    \/ resetAllFilters
    \/ \E viewId \in ViewArguments : showView(viewId)

Spec == Init /\ [][Next]_vars

(***************************************************************************)
(* renderGroupedImages on its own: any collection, into #image-container.  *)
(***************************************************************************)
RenderCall(data) ==
    /\ RenderGallery(data)
    /\ UNCHANGED << galleryData, flattenedImages, filterState, options, selected,
                    subjectOnchange, applied, hidden, ui, homeStats, pc, outcome,
                    fetchCalls, preview >>

NextRender == \E data \in RenderInputs : RenderCall(data)

SpecRender == Init /\ [][NextRender]_vars

(***************************************************************************)
(* The load and the preview overlay together.  The overlay's handlers and  *)
(* the filter and view handlers of Next share no state, so the overlay is  *)
(* followed here next to the load that renders the cards.                  *)
(***************************************************************************)
NextPreview ==
    \/ DOMContentLoaded
    \/ FetchRejects
    \/ \E ok \in BOOLEAN : FetchResolves(ok)
    \/ \E data \in InfoJsonCollections : JsonResolves(data)
    \/ JsonRejects
    \/ \E card \in Cards(containers.image) \cup Cards(containers.filtered) :
          openPreview(card.path, card.subject, card.date)
    \/ closePreview
    \/ EscapeKey
    \/ ResetTimerFires

SpecPreview == Init /\ [][NextPreview]_vars

(***************************************************************************)
(* Vocabulary of the properties                                            *)
(***************************************************************************)
RECURSIVE SeqAtFrom(_, _, _)
SeqAtFrom(seq, I, i) ==
    IF i > Len(seq) THEN <<>>
    ELSE (IF i \in I THEN <<seq[i]>> ELSE <<>>) \o SeqAtFrom(seq, I, i + 1)

(* The elements of seq at the indices I, in the order of seq. *)
SeqAt(seq, I) == SeqAtFrom(seq, I, 1)

DatesOf(data) == [i \in 1..Len(data) |-> data[i].date]

HasSubject(group, S) ==
    \E k \in 1..Len(group.subjects) : group.subjects[k].subject = S

OnlySubject(group, S) ==
    [date |-> group.date,
     subjects |-> SeqAt(group.subjects,
                        {k \in 1..Len(group.subjects) : group.subjects[k].subject = S})]

FieldIndex(f) == CASE f = "day" -> 1 [] f = "month" -> 2 [] f = "year" -> 3

(* Every selected field equals the date's component of that place. *)
FieldsMatch(date, sel) ==
    LET parts == Split(date) IN
    \A f \in DateFields :
        sel[f] # <<>> => (FieldIndex(f) <= Len(parts) /\ parts[FieldIndex(f)] = sel[f])

SubjectActive(fs, sel) == fs.subject /\ sel.subject # ""

DateActive(fs, sel) ==
    fs.date /\ (sel.day # <<>> \/ sel.month # <<>> \/ sel.year # <<>>)

Increasing(n, m) ==
    {f \in [1..n -> 1..m] : \A i, j \in 1..n : i < j => f[i] < f[j]}

(* sub is seq with elements removed, the rest in place. *)
IsSubsequence(sub, seq) ==
    \E f \in Increasing(Len(sub), Len(seq)) : \A k \in 1..Len(sub) : sub[k] = seq[f[k]]

RECURSIVE ImageCount(_)
ImageCount(data) ==
    IF data = <<>> THEN 0
    ELSE LET subs == Head(data).subjects IN
         LET RECURSIVE Images(_)
             Images(k) == IF k = 0 THEN 0 ELSE Len(subs[k].images) + Images(k - 1)
         IN Images(Len(subs)) + ImageCount(Tail(data))

(***************************************************************************)
(* C1.  Subject toggle on and a subject S selected: the filteredData of    *)
(* applyCombinedFilter is exactly the DateGroups holding a SubjectGroup of *)
(* subject S, each reduced to its SubjectGroups of subject S.              *)
(* As stated, this is violated when the date filter is active too.         *)
(***************************************************************************)
C1_SubjectFilterExact_AsStated ==
    (applied.ran /\ SubjectActive(applied.fs, applied.sel)) =>
        LET S == applied.sel.subject
            kept == SeqAt(applied.data,
                          {i \in 1..Len(applied.data) : HasSubject(applied.data[i], S)})
        IN applied.out = [k \in 1..Len(kept) |-> OnlySubject(kept[k], S)]

(* C1 as amended: ... exactly the DateGroups holding a SubjectGroup of     *)
(* subject S that the date filter, when it is active, retains (every       *)
(* selected field equal to the date's component), each reduced to its      *)
(* SubjectGroups of subject S with their images untouched; a DateGroup     *)
(* with no SubjectGroup of subject S never appears.                        *)
C1_SubjectFilterExact ==
    (applied.ran /\ SubjectActive(applied.fs, applied.sel)) =>
        LET S == applied.sel.subject
            kept == SeqAt(applied.data,
                          {i \in 1..Len(applied.data) :
                              /\ HasSubject(applied.data[i], S)
                              /\ DateActive(applied.fs, applied.sel) =>
                                    FieldsMatch(applied.data[i].date, applied.sel)})
        IN /\ applied.out = [k \in 1..Len(kept) |-> OnlySubject(kept[k], S)]
           /\ \A k \in 1..Len(applied.out) : HasSubject(applied.out[k], S)

(* Both filters active: a DateGroup of two subjects is reduced to one, and *)
(* a DateGroup holding the subject is dropped by the date filter.          *)
C1_Witness ==
    /\ applied.ran
    /\ SubjectActive(applied.fs, applied.sel)
    /\ DateActive(applied.fs, applied.sel)
    /\ Len(applied.out) = 1
    /\ Len(applied.out[1].subjects) = 1
    /\ \E i, j \in 1..Len(applied.data) :
          /\ applied.data[i].date = applied.out[1].date
          /\ Len(applied.data[i].subjects) = 2
          /\ HasSubject(applied.data[j], applied.sel.subject)
          /\ ~FieldsMatch(applied.data[j].date, applied.sel)

(***************************************************************************)
(* C2.  Date toggle on and a day, month or year selected: a DateGroup is   *)
(* retained if and only if every selected field equals the component of    *)
(* its date at that place.                                                 *)
(* As stated, this is violated when the subject filter is active too.      *)
(***************************************************************************)
C2_DateFilterExact_AsStated ==
    (applied.ran /\ DateActive(applied.fs, applied.sel)) =>
        DatesOf(applied.out) =
            DatesOf(SeqAt(applied.data,
                          {i \in 1..Len(applied.data) :
                              FieldsMatch(applied.data[i].date, applied.sel)}))

(* C2 as amended: ... a DateGroup is retained if and only if every         *)
(* selected field equals the component of its date at that place and, when *)
(* the subject filter is active, it holds a SubjectGroup of the selected   *)
(* subject; unselected fields constrain nothing.                           *)
C2_DateFilterExact ==
    (applied.ran /\ DateActive(applied.fs, applied.sel)) =>
        DatesOf(applied.out) =
            DatesOf(SeqAt(applied.data,
                          {i \in 1..Len(applied.data) :
                              /\ FieldsMatch(applied.data[i].date, applied.sel)
                              /\ SubjectActive(applied.fs, applied.sel) =>
                                    HasSubject(applied.data[i], applied.sel.subject)}))

(* Date filter alone with one field selected and two left empty: one       *)
(* DateGroup retained, one discarded.                                      *)
C2_Witness ==
    /\ applied.ran
    /\ DateActive(applied.fs, applied.sel)
    /\ ~SubjectActive(applied.fs, applied.sel)
    /\ applied.sel.day = <<>> /\ applied.sel.month # <<>> /\ applied.sel.year = <<>>
    /\ Len(applied.data) = 2
    /\ Len(applied.out) = 1

(***************************************************************************)
(* C3.  Subject filter inactive (toggle off, or on with no subject) and    *)
(* date filter inactive (toggle off, or on with day, month and year        *)
(* empty): the filteredData equals the collection.                         *)
(***************************************************************************)
C3_InactiveFiltersChangeNothing ==
    (/\ applied.ran
     /\ ~applied.fs.subject \/ applied.sel.subject = ""
     /\ ~applied.fs.date
          \/ (applied.sel.day = <<>> /\ applied.sel.month = <<>> /\ applied.sel.year = <<>>))
    => applied.out = applied.data

(* Both toggles on, nothing selected, on a loaded collection. *)
C3_Witness ==
    /\ applied.ran
    /\ applied.fs.subject /\ applied.fs.date
    /\ applied.sel = NoSelection
    /\ Len(applied.data) = 2
    /\ applied.out = applied.data

(***************************************************************************)
(* C4.  Filtering only removes: the output DateGroups are the input's with *)
(* some removed, in the input's order; each one's SubjectGroups are its    *)
(* input group's with some removed, images unchanged; the output holds no  *)
(* more images than the input.                                             *)
(***************************************************************************)
C4_FilterOnlyRemoves ==
    applied.ran =>
        /\ \E f \in Increasing(Len(applied.out), Len(applied.data)) :
              \A k \in 1..Len(applied.out) :
                  /\ applied.out[k].date = applied.data[f[k]].date
                  /\ IsSubsequence(applied.out[k].subjects, applied.data[f[k]].subjects)
        /\ ImageCount(applied.out) <= ImageCount(applied.data)

(* Two DateGroups of different dates stay, one of them with fewer SubjectGroups. *)
C4_Witness ==
    /\ applied.ran
    /\ Len(applied.out) = 2
    /\ applied.out[1].date # applied.out[2].date
    /\ ImageCount(applied.out) < ImageCount(applied.data)

(***************************************************************************)
(* C5.  Idempotence: filtering the filteredData again with the same        *)
(* toggles and selections gives the filteredData.                          *)
(***************************************************************************)
C5_FilterIdempotent ==
    applied.ran => FilteredData(applied.out, applied.fs, applied.sel) = applied.out

(* Both filters active; something was removed and something stays. *)
C5_Witness ==
    /\ applied.ran
    /\ SubjectActive(applied.fs, applied.sel)
    /\ DateActive(applied.fs, applied.sel)
    /\ applied.out # <<>>
    /\ applied.out # applied.data

(***************************************************************************)
(* C6.  renderGroupedImages shows exactly the DateGroups whose date splits *)
(* into three parts, no section before one of a later timestamp, each with *)
(* its SubjectGroups and images as in the input.                           *)
(***************************************************************************)
C6_GroupedRenderNewestFirst ==
    rendered.image.ran =>
        LET data == rendered.image.data
            sections == containers.image.sections
            threeParts == SeqAt(data, {i \in 1..Len(data) : Len(Split(data[i].date)) = 3})
            ts(k) == parseDDMMYYYY(sections[k].date).ts
        IN /\ Len(sections) = Len(threeParts)
           /\ \E p \in IndexPermutations(Len(threeParts)) :
                 \A k \in 1..Len(sections) :
                     sections[k] = [date |-> threeParts[p[k]].date,
                                    subjects |-> threeParts[p[k]].subjects]
           /\ \A i, j \in 1..Len(sections) :
                 i < j => ~(~ts(i).nan /\ ~ts(j).nan /\ ts(i).v < ts(j).v)

(***************************************************************************)
(* C7.  A container whose last grouped render was given a collection of    *)
(* zero DateGroups holds the "no results" placeholder.                     *)
(***************************************************************************)
C7_EmptyResultShowsPlaceholder ==
    \A c \in {"image", "filtered"} :
        (rendered[c].ran /\ Len(rendered[c].data) = 0) =>
            containers[c] = renderImages(<<>>)

(***************************************************************************)
(* C8.  fetch is called once.  After a load that failed (fetch rejected,   *)
(* status not OK, body not JSON) the collection is the embedded sample of  *)
(* two DateGroups, flattened, offered in the filter options, rendered in   *)
(* the gallery and counted in the statistics; the gallery is not empty.    *)
(***************************************************************************)
LoadFailed == outcome \in {"fetchRejected", "notOk", "badJson"}

C8_FailedLoadFallsBack ==
    /\ fetchCalls <= 1
    /\ pc # "idle" => fetchCalls = 1
    /\ LoadFailed =>
          /\ pc = "done"
          /\ galleryData = FallbackData
          /\ Len(galleryData) = 2
          /\ flattenedImages = getFlattenedImages(galleryData)
          /\ Len(flattenedImages) = 8
          /\ options.subject = {"Physics", "Chemistry", "Biology"}
          /\ Cardinality(options.day) = 2
          /\ rendered.image = [ran |-> TRUE, data |-> galleryData]
          /\ ~containers.image.emptyState
          /\ Len(containers.image.sections) = 2
          /\ homeStats.written
          /\ homeStats.stats.totalImages = 8
          /\ homeStats.stats.uniqueDates = 2

(* A body that is not JSON, and the user in the gallery afterwards. *)
C8_Witness ==
    /\ outcome = "badJson"
    /\ pc = "done"
    /\ ~hidden["gallery-view"]
    /\ Len(containers.image.sections) = 2

(***************************************************************************)
(* C9.  A date that does not split into three parts, in a collection that  *)
(* loaded, raises nothing: fetchData runs to its end, and the DateGroup is *)
(* left out of the grouped render and of the oldest and newest date.       *)
(***************************************************************************)
WellFormedOrNotAvailable(date) == date = NotAvailable \/ Len(Split(date)) = 3

C9_MalformedDateNeverRaises ==
    /\ pc # "threw"
    /\ (outcome = "loaded" /\ pc = "done") =>
          /\ homeStats.written
          /\ WellFormedOrNotAvailable(homeStats.stats.oldestDate)
          /\ WellFormedOrNotAvailable(homeStats.stats.newestDate)
          /\ \A k \in 1..Len(containers.image.sections) :
                Len(Split(containers.image.sections[k].date)) = 3

(***************************************************************************)
(* C10.  Exactly one view is not hidden, whatever ids showView was called  *)
(* with.                                                                   *)
(***************************************************************************)
C10_ExactlyOneViewVisible == Cardinality({v \in Views : ~hidden[v]}) = 1

(***************************************************************************)
(* C11.  While the overlay is active, the preview image's source is the    *)
(* path of the last openPreview, and is never the cleared source, also     *)
(* when a closePreview came before and its delayed reset is still to run.  *)
(***************************************************************************)
C11_ReopenSupersedesReset ==
    preview.active => (preview.src = preview.requested /\ preview.src # "")

(***************************************************************************)
(* C12.  While the filter view is the visible one, between any two         *)
(* handlers (every state here is one), #filtered-image-container shows a   *)
(* grouped render of the current toggles and selections applied to the     *)
(* current galleryData, also when the load ends after the view was         *)
(* entered.                                                                *)
(***************************************************************************)
C12_FilterViewShowsCurrentFilter ==
    ~hidden["filter-view"] =>
        containers.filtered \in
            renderGroupedImages(FilteredData(galleryData, filterState, selected))

=============================================================================
